---- MODULE Spec2Model ----
(***************************************************************************)
(* Model of rwcarlsen/adiff, package main (src/main.go): the symbolic      *)
(* expression engine (Val, Partial, Simplify over Variable, Constant, Sum, *)
(* Mult, Ln, Pow, Branch), the test driver of src/unnamed/part_002 and the *)
(* Network training loop.                                                  *)
(*                                                                         *)
(* Numbers.  A float64 is modelled as an exact rational <<n, d>> in lowest *)
(* terms with d > 0, or one of the IEEE specials +Inf = <<1, 0>>,          *)
(* -Inf = <<-1, 0>>, NaN = <<0, 0>>.  Rounding and the sign of zero are    *)
(* outside the model.  math.Pow and math.Log are modelled on the arguments *)
(* where their result is rational or special; elsewhere they are left      *)
(* undefined and no behaviour of the specifications evaluates them there.  *)
(*                                                                         *)
(* Expressions.  A Func is a record [k, n, a]: k the dynamic type, n the   *)
(* number it carries (the index of a Variable, the value of a Constant),   *)
(* a the sequence of its children.  A Branch is a Go closure; the two      *)
(* closures the program creates (in Abs and in Branch.Partial) are         *)
(* represented by what they capture and Call applies them to a point.      *)
(***************************************************************************)
EXTENDS Integers, Sequences, FiniteSets, TLC

VARIABLES
    fn,       \* the expression the operations started from
    x,        \* the point of the test grid under test
    g,        \* the result of the last operation
    prev,     \* the expression the last operation was applied to
    trail,    \* the operations applied so far
    net,      \* the Network: nextVarIndex, Vars, Weights, CostFunc, State
    pc,       \* where Train stands: idle, point, delta, done, panic
    rate,     \* learnRate
    data,     \* varData of the running call of Train
    pos,      \* the index in varData of the point being trained on
    wi,       \* the index in Weights of the next weight whose delta is computed
    dweight,  \* dweight of Train
    derivs,   \* derivs of Train
    snap,     \* history: State when the deltas of the current point were started
    entry,    \* history: the Network when Train was called
    calls,    \* history: the number of calls of Train
    used,     \* history: the number of training points passed to Train
    neurons,  \* the Neurons allocated so far; a *Neuron is an index of this list
    before    \* history: neurons when the last method of a Neuron was called

evars == <<fn, x, g, prev, trail>>
gvars == <<neurons, before>>
nvars == <<net, pc, rate, data, pos, wi, dweight, derivs, snap, entry, calls, used,
           neurons, before>>
vars == <<fn, x, g, prev, trail, net, pc, rate, data, pos, wi, dweight, derivs, snap,
          entry, calls, used, neurons, before>>

----------------------------------------------------------------------------
(* float64 arithmetic                                                      *)

NaN == <<0, 0>>
PosInf == <<1, 0>>
NegInf == <<-1, 0>>

AbsInt(i) == IF i < 0 THEN -i ELSE i
SignInt(i) == IF i < 0 THEN -1 ELSE IF i > 0 THEN 1 ELSE 0

RECURSIVE GCD(_, _)
GCD(a, b) == IF b = 0 THEN a ELSE GCD(b, a % b)

\* the float64 with value n/d
Float(n, d) ==
    IF d = 0 THEN <<SignInt(n), 0>>
    ELSE LET c == GCD(AbsInt(n), AbsInt(d))
         IN  <<(SignInt(d) * n) \div c, AbsInt(d) \div c>>

Whole(i) == <<i, 1>>

IsNaN(a) == a = NaN
IsInf(a) == a[2] = 0 /\ a[1] # 0
IsFinite(a) == a[2] # 0
\* a == 0, a == 1, a != 0, a >= 0 on float64 (every comparison with NaN is false)
EqZero(a) == a[2] # 0 /\ a[1] = 0
EqOne(a) == a = <<1, 1>>
GeZero(a) == ~IsNaN(a) /\ a[1] >= 0
LtZero(a) == ~IsNaN(a) /\ a[1] < 0
IsInteger(a) == a[2] = 1

\* a + b
FAdd(a, b) ==
    IF IsNaN(a) \/ IsNaN(b) THEN NaN
    ELSE IF IsInf(a) THEN (IF IsInf(b) /\ b # a THEN NaN ELSE a)
    ELSE IF IsInf(b) THEN b
    ELSE Float(a[1] * b[2] + b[1] * a[2], a[2] * b[2])

\* a * b (0 * Inf = NaN)
FMul(a, b) == Float(a[1] * b[1], a[2] * b[2])

FNeg(a) == <<-a[1], a[2]>>
FAbs(a) == <<AbsInt(a[1]), a[2]>>
\* a <= b for two finite numbers
FLeq(a, b) == a[1] * b[2] <= b[1] * a[2]

RECURSIVE IntPow(_, _)
IntPow(b, k) == IF k = 0 THEN 1 ELSE b * IntPow(b, k - 1)

\* math.Pow(b, y), following the special cases of the Go documentation
MathPow(b, y) ==
    IF EqZero(y) THEN Whole(1)
    ELSE IF EqOne(b) THEN Whole(1)
    ELSE IF EqOne(y) THEN b
    ELSE IF IsNaN(b) \/ IsNaN(y) THEN NaN
    ELSE IF EqZero(b) THEN (IF LtZero(y) THEN PosInf ELSE Whole(0))
    ELSE IF IsInf(y) THEN
        (IF b = Whole(-1) THEN Whole(1)
         ELSE IF IsInf(b) \/ ~FLeq(FAbs(b), Whole(1))
              THEN (IF y = PosInf THEN PosInf ELSE Whole(0))
              ELSE (IF y = PosInf THEN Whole(0) ELSE PosInf))
    ELSE IF IsInf(b) THEN
        (IF LtZero(y) THEN Whole(0)
         ELSE IF b = NegInf /\ IsInteger(y) /\ y[1] % 2 = 1 THEN NegInf
         ELSE PosInf)
    ELSE IF ~IsInteger(y) THEN
        (IF LtZero(b) THEN NaN
         ELSE CHOOSE irrational \in {} : TRUE)
    ELSE IF y[1] > 0 THEN Float(IntPow(b[1], y[1]), IntPow(b[2], y[1]))
    ELSE Float(IntPow(b[2], -y[1]), IntPow(b[1], -y[1]))

\* math.Tanh(a): rational at 0 only
MathTanh(a) ==
    IF IsNaN(a) THEN NaN
    ELSE IF EqZero(a) THEN Whole(0)
    ELSE IF a = PosInf THEN Whole(1)
    ELSE IF a = NegInf THEN Whole(-1)
    ELSE CHOOSE irrational \in {} : TRUE

\* math.Log(a)
MathLog(a) ==
    IF IsNaN(a) \/ LtZero(a) THEN NaN
    ELSE IF EqZero(a) THEN NegInf
    ELSE IF a = PosInf THEN PosInf
    ELSE IF EqOne(a) THEN Whole(0)
    ELSE CHOOSE irrational \in {} : TRUE

----------------------------------------------------------------------------
(* Func values                                                             *)

Variable(i) == [k |-> "Variable", n |-> Whole(i), a |-> <<>>]
Constant(c) == [k |-> "Constant", n |-> c, a |-> <<>>]
Sum(s) == [k |-> "Sum", n |-> Whole(0), a |-> s]
Mult(m) == [k |-> "Mult", n |-> Whole(0), a |-> m]
Ln(f) == [k |-> "Ln", n |-> Whole(0), a |-> <<f>>]
Pow(base, exponent) == [k |-> "Pow", n |-> Whole(0), a |-> <<base, exponent>>]
\* Abs returns a Branch: the closure that captures f
Abs(f) == [k |-> "BranchAbs", n |-> Whole(0), a |-> <<f>>]
\* the closure Branch.Partial returns, capturing b and v
BranchPartial(b, v) == [k |-> "BranchPartial", n |-> Whole(v), a |-> <<b>>]

\* the closure bcs of prob1dDiscont: it returns ifZero where x[xi] == 0, ifOne
\* where x[xi] == 1 and otherwise elsewhere
bcs(xi, ifZero, ifOne, otherwise) ==
    [k |-> "BranchBcs", n |-> Whole(xi), a |-> <<ifZero, ifOne, otherwise>>]
Tanh(f) == [k |-> "Tanh", n |-> Whole(0), a |-> <<f>>]
Passthrough(f) == [k |-> "Passthrough", n |-> Whole(0), a |-> <<f>>]

IsConstant(f) == f.k = "Constant"
IsVariable(f) == f.k = "Variable"
IsBranch(f) == f.k \in {"BranchAbs", "BranchPartial", "BranchBcs"}
Index(f) == f.n[1]
Base(p) == p.a[1]
Exponent(p) == p.a[2]

Negative(f) == Mult(<<Constant(Whole(-1)), f>>)
Inverse(f) == Pow(f, Constant(Whole(-1)))

----------------------------------------------------------------------------
(* Val and Partial                                                         *)

RECURSIVE Val(_, _), Partial(_, _), Call(_, _)
RECURSIVE SumValLoop(_, _, _, _), MultValLoop(_, _, _, _)

VariableVal(v, xs) == xs[Index(v) + 1]
ConstantVal(c, xs) == c.n

\* the loop of Sum.Val from term i on, tot the running total
SumValLoop(s, xs, i, tot) ==
    IF i > Len(s) THEN tot
    ELSE SumValLoop(s, xs, i + 1, FAdd(tot, Val(s[i], xs)))

SumVal(s, xs) == SumValLoop(s.a, xs, 1, Whole(0))

\* a factor of Mult.Val that is == 0 ends the loop with 0
\* a Mult.Val that never returns early
ShortCircuitNever(v) == FALSE

ShortCircuit(v) == EqZero(v)

\* the loop of Mult.Val from factor i on, tot the running product
MultValLoop(m, xs, i, tot) ==
    IF i > Len(m) THEN tot
    ELSE LET v == Val(m[i], xs)
         IN  IF ShortCircuit(v) THEN Whole(0)
             ELSE MultValLoop(m, xs, i + 1, FMul(tot, v))

MultVal(m, xs) == MultValLoop(m.a, xs, 1, Whole(1))

LnVal(ln, xs) == MathLog(Val(ln.a[1], xs))
PowVal(p, xs) == MathPow(Val(Base(p), xs), Val(Exponent(p), xs))

\* b(x): the Func a Branch closure returns at the point xs
\* Abs without the test of the sign: the closure always returns f
CallIgnoresSign(b, xs) ==
    IF b.k = "BranchAbs"
    THEN b.a[1]
    ELSE IF b.k = "BranchBcs"
    THEN (IF EqZero(xs[Index(b) + 1]) THEN b.a[1]
          ELSE IF EqOne(xs[Index(b) + 1]) THEN b.a[2]
          ELSE b.a[3])
    ELSE Partial(Call(b.a[1], xs), Index(b))

Call(b, xs) ==
    IF b.k = "BranchAbs"
    THEN (IF GeZero(Val(b.a[1], xs)) THEN b.a[1] ELSE Negative(b.a[1]))
    ELSE IF b.k = "BranchBcs"
    THEN (IF EqZero(xs[Index(b) + 1]) THEN b.a[1]
          ELSE IF EqOne(xs[Index(b) + 1]) THEN b.a[2]
          ELSE b.a[3])
    ELSE Partial(Call(b.a[1], xs), Index(b))

\* a Branch.Val that evaluates every branch of bcs and keeps the selected value
\* by multiplying the others by 0
BranchValBlend(b, xs) ==
    IF b.k = "BranchBcs"
    THEN LET at == xs[Index(b) + 1]
             sel == IF EqZero(at) THEN 1 ELSE IF EqOne(at) THEN 2 ELSE 3
             part(j) == FMul(IF j = sel THEN Whole(1) ELSE Whole(0), Val(b.a[j], xs))
         IN  FAdd(FAdd(part(1), part(2)), part(3))
    ELSE Val(Call(b, xs), xs)

BranchVal(b, xs) == Val(Call(b, xs), xs)

TanhVal(t, xs) == MathTanh(Val(t.a[1], xs))
\* Passthrough embeds its Func: Val, Partial and String are those of the Func
PassthroughVal(p, xs) == Val(p.a[1], xs)

Val(f, xs) ==
    CASE f.k = "Variable" -> VariableVal(f, xs)
      [] f.k = "Constant" -> ConstantVal(f, xs)
      [] f.k = "Sum" -> SumVal(f, xs)
      [] f.k = "Mult" -> MultVal(f, xs)
      [] f.k = "Ln" -> LnVal(f, xs)
      [] f.k = "Pow" -> PowVal(f, xs)
      [] IsBranch(f) -> BranchVal(f, xs)
      [] f.k = "Tanh" -> TanhVal(f, xs)
      [] f.k = "Passthrough" -> PassthroughVal(f, xs)

VariablePartial(vv, v) == IF Index(vv) # v THEN Constant(Whole(0)) ELSE Constant(Whole(1))
ConstantPartial(c, v) == Constant(Whole(0))
SumPartial(s, v) == Sum([i \in 1..Len(s.a) |-> Partial(s.a[i], v)])

MultPartial(m, v) ==
    IF Len(m.a) = 0 THEN Constant(Whole(0))
    ELSE LET rest == Mult(SubSeq(m.a, 2, Len(m.a)))
         IN  Sum(<<Mult(<<Partial(m.a[1], v), rest>>),
                   Mult(<<m.a[1], Partial(rest, v)>>)>>)

LnPartial(ln, v) == Mult(<<Partial(ln.a[1], v), Inverse(ln.a[1])>>)

\* Pow.Partial without the factor p.Exponent of the power rule
PowPartialNoExponent(p, v) ==
    Mult(<<p,
           Sum(<<Mult(<<Partial(Exponent(p), v), Ln(Abs(Base(p)))>>),
                 Mult(<<Partial(Base(p), v), Inverse(Base(p))>>)>>)>>)

PowPartial(p, v) ==
    Mult(<<p,
           Sum(<<Mult(<<Partial(Exponent(p), v), Ln(Abs(Base(p)))>>),
                 Mult(<<Partial(Base(p), v), Inverse(Base(p)), Exponent(p)>>)>>)>>)

TanhPartial(t, v) ==
    Mult(<<Partial(t.a[1], v),
           Sum(<<Constant(Whole(1)), Negative(Pow(Tanh(t.a[1]), Constant(Whole(2))))>>)>>)

PassthroughPartial(p, v) == Partial(p.a[1], v)

Partial(f, v) ==
    CASE f.k = "Variable" -> VariablePartial(f, v)
      [] f.k = "Constant" -> ConstantPartial(f, v)
      [] f.k = "Sum" -> SumPartial(f, v)
      [] f.k = "Mult" -> MultPartial(f, v)
      [] f.k = "Ln" -> LnPartial(f, v)
      [] f.k = "Pow" -> PowPartial(f, v)
      [] IsBranch(f) -> BranchPartial(f, v)
      [] f.k = "Tanh" -> TanhPartial(f, v)
      [] f.k = "Passthrough" -> PassthroughPartial(f, v)

----------------------------------------------------------------------------
(* Simplify.  Mult.Simplify ranges over a Go map (dups), whose iteration   *)
(* order is unspecified, so a call has a set of possible results:          *)
(* Simplify(f) is the set of Funcs f.Simplify() can return.                *)

RECURSIVE Simplify(_), Choices(_), Perms(_), Flatten(_), ConstSum(_), MergeLoop(_, _, _)

\* the ways to take one element of each set of a sequence of sets
Choices(ss) ==
    IF Len(ss) = 0 THEN {<<>>}
    ELSE {<<h>> \o t : h \in ss[1], t \in Choices(Tail(ss))}

\* the orders in which a range statement can visit the keys of a map
Perms(S) ==
    IF S = {} THEN {<<>>}
    ELSE UNION {{<<e>> \o t : t \in Perms(S \ {e})} : e \in S}

Flatten(ss) == IF Len(ss) = 0 THEN <<>> ELSE ss[1] \o Flatten(Tail(ss))

IsZeroConstant(f) == IsConstant(f) /\ EqZero(f.n)
IsOneConstant(f) == IsConstant(f) /\ EqOne(f.n)
NotZeroConstant(f) == ~IsZeroConstant(f)
NotConstant(f) == ~IsConstant(f)

\* the results of calling Simplify on every element of a list
SimplifyEach(fs) == Choices([i \in 1..Len(fs) |-> Simplify(fs[i])])

VariableSimplify(v) == {v}
ConstantSimplify(c) == {c}

\* constTot of Sum.Simplify: the constants of ds added up in order
ConstSum(ds) ==
    IF Len(ds) = 0 THEN Whole(0)
    ELSE LET r == ConstSum(SubSeq(ds, 1, Len(ds) - 1))
             f == ds[Len(ds)]
         IN  IF IsConstant(f) THEN FAdd(r, f.n) ELSE r

\* Sum.Simplify from its second loop on: ds are the re-simplified nonzero terms
SumFinish(ds) ==
    LET constTot == ConstSum(ds)
        kept == SelectSeq(ds, NotConstant)
        simpler == IF ~EqZero(constTot) THEN Append(kept, Constant(constTot)) ELSE kept
    IN  IF Len(simpler) = 0 THEN Constant(Whole(0))
        ELSE IF Len(simpler) = 1 THEN simpler[1]
        ELSE Sum(simpler)

SumSimplify(s) ==
    UNION {{SumFinish(ds) : ds \in SimplifyEach(SelectSeq(cs, NotZeroConstant))} :
           cs \in SimplifyEach(s.a)}

PowSimplify(p) ==
    {IF IsZeroConstant(exp) THEN Constant(Whole(1))
     ELSE IF IsOneConstant(exp) THEN base
     ELSE Pow(base, exp) :
        base \in Simplify(Base(p)), exp \in Simplify(Exponent(p))}

\* what the first loop of Mult.Simplify appends for the simplified factor c
MultKeep(c) ==
    IF IsOneConstant(c) THEN {<<>>}
    ELSE IF c.k = "Mult" THEN SimplifyEach(c.a)
    ELSE {<<c>>}

\* the lists `simplified` the first loop of Mult.Simplify can build from the
\* simplified factors cs, none of which is Constant(0)
MultFirstLoop(cs) == {Flatten(ch) : ch \in Choices([i \in 1..Len(cs) |-> MultKeep(cs[i])])}

\* dups[v] = p
PutDup(dups, v, p) == [w \in DOMAIN dups \cup {v} |-> IF w = v THEN p ELSE dups[w]]

\* one pass of the second loop of Mult.Simplify on the factor f
MergeStep(st, f) ==
    IF f.k = "Pow" /\ IsVariable(Base(f)) THEN
        LET v == Index(Base(f))
        IN  IF v \in DOMAIN st.dups
            THEN {[st EXCEPT !.dups = PutDup(st.dups, v, Pow(Base(st.dups[v]), e))] :
                    e \in SumSimplify(Sum(<<Exponent(st.dups[v]), Exponent(f)>>))}
            ELSE {[st EXCEPT !.dups = PutDup(st.dups, v, f)]}
    ELSE IF IsVariable(f) THEN
        LET v == Index(f)
        IN  IF v \in DOMAIN st.dups
            THEN {[st EXCEPT !.dups = PutDup(st.dups, v, Pow(Base(st.dups[v]), e))] :
                    e \in SumSimplify(Sum(<<Exponent(st.dups[v]), Constant(Whole(1))>>))}
            ELSE {[st EXCEPT !.dups = PutDup(st.dups, v, Pow(f, Constant(Whole(1))))]}
    ELSE IF IsConstant(f) THEN {[st EXCEPT !.constTot = FMul(st.constTot, f.n)]}
    ELSE {[st EXCEPT !.simpler = Append(st.simpler, f)]}

\* the second loop of Mult.Simplify from element i of `simplified` on
MergeLoop(simplified, i, st) ==
    IF i > Len(simplified) THEN {st}
    ELSE UNION {MergeLoop(simplified, i + 1, t) : t \in MergeStep(st, simplified[i])}

\* simpler = append(simpler, Constant(constTot))
AddConstTot(simpler, constTot) == Append(simpler, Constant(constTot))

\* the orders in which `for _, f := range dups` can visit dups
RangeOrders(dups) == Perms(DOMAIN dups)

\* the end of Mult.Simplify: add back the constant and the merged powers
MultFinish(st) ==
    LET head == AddConstTot(st.simpler, st.constTot)
    IN  {LET simpler == head \o ps
         IN  IF Len(simpler) = 0 THEN Constant(Whole(1))
             ELSE IF Len(simpler) = 1 THEN simpler[1]
             ELSE Mult(simpler) :
           ps \in UNION {Choices([i \in 1..Len(o) |-> PowSimplify(st.dups[o[i]])]) :
                         o \in RangeOrders(st.dups)}}

NoDups == [w \in {} |-> Constant(Whole(0))]

\* a Mult none of whose simplified factors cs is Constant(0)
MultReduce(cs) ==
    UNION {UNION {MultFinish(st) :
                    st \in MergeLoop(sl, 1, [simpler |-> <<>>, constTot |-> Whole(1),
                                             dups |-> NoDups])} :
           sl \in MultFirstLoop(cs)}

\* Mult.Simplify without the early return on a zero factor
MultSimplifyKeepsZero(m) == UNION {MultReduce(cs) : cs \in SimplifyEach(m.a)}

MultSimplify(m) ==
    UNION {IF \E i \in 1..Len(cs) : IsZeroConstant(cs[i])
           THEN {Constant(Whole(0))}
           ELSE MultReduce(cs) :
        cs \in SimplifyEach(m.a)}

LnSimplify(ln) == {Ln(f) : f \in Simplify(ln.a[1])}
BranchSimplify(b) == {b}
TanhSimplify(t) == {Tanh(f) : f \in Simplify(t.a[1])}
PassthroughSimplify(p) == {Passthrough(f) : f \in Simplify(p.a[1])}

Simplify(f) ==
    CASE f.k = "Variable" -> VariableSimplify(f)
      [] f.k = "Constant" -> ConstantSimplify(f)
      [] f.k = "Sum" -> SumSimplify(f)
      [] f.k = "Mult" -> MultSimplify(f)
      [] f.k = "Ln" -> LnSimplify(f)
      [] f.k = "Pow" -> PowSimplify(f)
      [] IsBranch(f) -> BranchSimplify(f)
      [] f.k = "Tanh" -> TanhSimplify(f)
      [] f.k = "Passthrough" -> PassthroughSimplify(f)

----------------------------------------------------------------------------
(* The expressions and points the specifications start from                *)

MaxConst == 2
MaxLen == 2
MaxOps == 2

Vars == {0, 1}
Coords == {-1, 0, 2}
Points == {<<Whole(c), Whole(d)>> : c \in Coords, d \in Coords}

Leaves == {Variable(v) : v \in Vars} \cup {Constant(Whole(c)) : c \in -1..MaxConst}

\* the lists of at most n elements of L
Lists(L, n) == UNION {[1..k -> L] : k \in 0..n}

\* c alone, or c with one element of L before or after it
Around(L, c) == {<<c>>} \cup {<<c, l>> : l \in L} \cup {<<l, c>> : l \in L}

\* Sum, Mult, Pow and Abs literals over leaves
Level1 ==
    Leaves
    \cup {Sum(s) : s \in Lists(Leaves, MaxLen)}
    \cup {Mult(s) : s \in Lists(Leaves, MaxLen)}
    \cup {Pow(b, e) : b \in Leaves, e \in Leaves}
    \cup {Abs(f) : f \in Leaves}

\* literals one level deeper: a Level1 literal as a term, a factor, a base or the
\* argument of Abs; exponents stay leaves so that every exponent evaluates to an
\* integer
Level2 ==
    UNION {{Sum(s) : s \in Around(Leaves, c)} : c \in Level1}
    \cup UNION {{Mult(s) : s \in Around(Leaves, c)} : c \in Level1}
    \cup {Pow(b, e) : b \in Level1, e \in Leaves}
    \cup {Abs(f) : f \in Level1}

\* a power of a variable with a constant exponent, or a bare variable
VarPowers ==
    {Variable(v) : v \in Vars}
    \cup {Pow(Variable(v), Constant(Whole(c))) : v \in Vars, c \in -1..MaxConst}

\* products of two powers of variables
PowProducts == {Mult(<<p, q>>) : p \in VarPowers, q \in VarPowers}

\* the expressions a bcs closure returns: a constant, a variable, one that is
\* +Inf where x0 is 0, and one that Simplify changes
BranchExprs ==
    {Constant(Whole(1)), Variable(0), Inverse(Variable(0)),
     Sum(<<Variable(1), Constant(Whole(0))>>)}

Conditionals == {bcs(v, a, b, c) : v \in Vars, a \in BranchExprs, b \in BranchExprs,
                                  c \in BranchExprs}

\* the points with the coordinate 1 that bcs tests for
BranchPoints == {<<Whole(c), Whole(d)>> : c \in Coords \cup {1}, d \in Coords \cup {1}}

Funcs == Level1 \cup Level2 \cup PowProducts \cup Conditionals

RECURSIVE ConstantExponents(_)
\* every Pow of f has a Constant exponent: Partial of such an f multiplies every
\* Ln it creates by a factor that evaluates to 0
ConstantExponents(f) ==
    /\ f.k = "Pow" => IsConstant(Exponent(f))
    /\ \A i \in 1..Len(f.a) : ConstantExponents(f.a[i])

----------------------------------------------------------------------------
(* Specification ExprSpec: Simplify and Partial applied to an expression   *)

Op(name, v) == [op |-> name, v |-> v]

\* a nil Func
Nil == [k |-> "nil", n |-> Whole(0), a |-> <<>>]

\* var net Network
Network == [nextVarIndex |-> 0, Vars |-> <<>>, Weights |-> <<>>, CostFunc |-> Nil,
            State |-> <<>>, Outputs |-> <<>>]

NoDerivs == [w \in {} |-> Nil]

\* no Network is in use
NetIdle ==
    /\ net = Network /\ pc = "idle" /\ rate = Whole(0) /\ data = <<>>
    /\ pos = 0 /\ wi = 0 /\ dweight = <<>> /\ derivs = NoDerivs
    /\ snap = <<>> /\ entry = Network /\ calls = 0 /\ used = 0
    /\ neurons = <<>> /\ before = <<>>

ExprInit ==
    /\ fn \in Funcs
    /\ x = <<>>
    /\ g = fn /\ prev = fn /\ trail = <<>>
    /\ NetIdle

\* g = g.Simplify()
DoSimplify ==
    /\ Len(trail) < MaxOps
    /\ g' \in Simplify(g)
    /\ prev' = g
    /\ trail' = Append(trail, Op("Simplify", 0))
    /\ UNCHANGED <<fn, x>>
    /\ UNCHANGED nvars

\* g = g.Partial(v)
DoPartial ==
    /\ trail = <<>>
    /\ ConstantExponents(g)
    /\ \E v \in Vars :
          /\ g' = Partial(g, v)
          /\ trail' = Append(trail, Op("Partial", v))
    /\ prev' = g
    /\ UNCHANGED <<fn, x>>
    /\ UNCHANGED nvars

ExprNext == DoSimplify \/ DoPartial

ExprSpec == ExprInit /\ [][ExprNext]_vars

----------------------------------------------------------------------------
(* Specification TestSpec: TestProblems of src/unnamed/part_002            *)

ndivs == 10

X0 == Variable(0)
X1 == Variable(1)
Two == Constant(Whole(2))
Sq(a) == FMul(a, a)

\* var problems: Eqn, Nvars and CheckDerivs of each Problem
problems ==
    << [Eqn |-> X0, Nvars |-> 1, CheckDerivs |-> <<<<0>>>>],
       [Eqn |-> Pow(X0, Two), Nvars |-> 1, CheckDerivs |-> <<<<0>>>>],
       [Eqn |-> Pow(X0, Two), Nvars |-> 2, CheckDerivs |-> <<<<0>>, <<1>>>>],
       [Eqn |-> Mult(<<X0, X1>>), Nvars |-> 2, CheckDerivs |-> <<<<0>>, <<1>>>>],
       [Eqn |-> Mult(<<Pow(X0, Two), X1>>), Nvars |-> 2, CheckDerivs |-> <<<<0>>, <<1>>>>],
       [Eqn |-> Sum(<<Mult(<<Pow(X0, Two), X1>>), Pow(X1, Two), Constant(Whole(7))>>),
        Nvars |-> 2,
        CheckDerivs |-> <<<<0>>, <<1>>, <<0, 0>>, <<0, 1>>, <<1, 0>>>>] >>

\* WantFunc of problem i at the point xs
WantFunc(i, xs) ==
    CASE i = 1 -> xs[1]
      [] i \in {2, 3} -> Sq(xs[1])
      [] i = 4 -> FMul(xs[1], xs[2])
      [] i = 5 -> FMul(Sq(xs[1]), xs[2])
      [] i = 6 -> FAdd(FAdd(FMul(Sq(xs[1]), xs[2]), Sq(xs[2])), Whole(7))

\* CheckDerivsWant[j] of problem i at the point xs
CheckDerivsWant(i, j, xs) ==
    CASE i = 1 -> Whole(1)
      [] i = 2 -> FMul(Whole(2), xs[1])
      [] i = 3 -> (IF j = 1 THEN FMul(Whole(2), xs[1]) ELSE Whole(0))
      [] i = 4 -> (IF j = 1 THEN xs[2] ELSE xs[1])
      [] i = 5 -> (IF j = 1 THEN FMul(FMul(Whole(2), xs[1]), xs[2]) ELSE Sq(xs[1]))
      [] i = 6 -> CASE j = 1 -> FMul(FMul(Whole(2), xs[1]), xs[2])
                    [] j = 2 -> FAdd(Sq(xs[1]), FMul(Whole(2), xs[2]))
                    [] j = 3 -> FMul(Whole(2), xs[2])
                    [] j \in {4, 5} -> FMul(Whole(2), xs[1])

\* Permute(0, divs...): every combination of 0..ndivs-1 per dimension
Permute(nv) == [1..nv -> 0..(ndivs - 1)]

\* x[i] = float64(perm[i])/float64(ndivs)*(p.Xmax-p.Xmin) + p.Xmin, Xmin = 0, Xmax = 1
GridPoint(perm) == [i \in 1..Len(perm) |-> Float(perm[i], ndivs)]

\* the variables of the Partial calls made so far
Taken == [i \in 1..Len(trail) |-> trail[i].v]

IsPrefix(s, t) == Len(s) <= Len(t) /\ SubSeq(t, 1, Len(s)) = s

\* the problem under test (problems 2 and 3 differ in Nvars only)
Problem == CHOOSE i \in 1..Len(problems) : problems[i].Eqn = fn /\ problems[i].Nvars = Len(x)

TestInit ==
    /\ \E i \in 1..Len(problems) :
          /\ fn = problems[i].Eqn
          /\ x \in {GridPoint(perm) : perm \in Permute(problems[i].Nvars)}
    /\ g = fn /\ prev = fn /\ trail = <<>>
    /\ NetIdle

\* fn = fn.Partial(jvar) in the loop over a CheckDerivs entry
TestPartial ==
    /\ \E jvar \in Vars :
          /\ \E j \in 1..Len(problems[Problem].CheckDerivs) :
                IsPrefix(Append(Taken, jvar), problems[Problem].CheckDerivs[j])
          /\ g' = Partial(g, jvar)
          /\ trail' = Append(trail, Op("Partial", jvar))
    /\ prev' = g
    /\ UNCHANGED <<fn, x>>
    /\ UNCHANGED nvars

TestNext == TestPartial

TestSpec == TestInit /\ [][TestNext]_vars

----------------------------------------------------------------------------
(* Claims about Val, Partial and Simplify                                  *)

LastOp == trail[Len(trail)]
Simplified == trail # <<>> /\ LastOp.op = "Simplify"
OnlySimplified == trail # <<>> /\ \A i \in 1..Len(trail) : trail[i].op = "Simplify"

\* C1: for every expression built from Variable, Constant, Sum, Mult, Pow and
\* Branch and every point x, e.Simplify().Val(x) equals e.Val(x).
C1_SimplifyKeepsVal == OnlySimplified => \A p \in Points : Val(g, p) = Val(prev, p)

\* the index of the CheckDerivs entry whose partials have been taken
CheckIndex ==
    CHOOSE j \in 1..Len(problems[Problem].CheckDerivs) :
        problems[Problem].CheckDerivs[j] = Taken

\* C2: at every point of the test grid, for every problem of the test, Eqn.Val
\* equals WantFunc and the value of every first partial equals the analytic
\* first partial derivative.
C2_ValAndFirstPartials ==
    /\ trail = <<>> => Val(g, x) = WantFunc(Problem, x)
    /\ Len(trail) = 1 => Val(g, x) = CheckDerivsWant(Problem, CheckIndex, x)

\* C2 witness: the first partial of x^2*y + y^2 + 7 by y has been taken and
\* evaluates to x^2 + 2*y at a point with both coordinates nonzero.
C2_Witness ==
    /\ Problem = 6 /\ Taken = <<1>>
    /\ x = <<Float(3, 10), Float(1, 2)>>
    /\ Val(g, x) = Float(109, 100)

\* C3: for e = x^2*y + y^2 + 7 and every point of the test grid,
\* e.Partial(x).Partial(x).Val = 2*y, e.Partial(x).Partial(y).Val = 2*x and
\* e.Partial(y).Partial(x).Val = 2*x.
C3_SecondPartials ==
    Len(trail) = 2 => Val(g, x) = CheckDerivsWant(Problem, CheckIndex, x)

\* C5: Simplify is idempotent: e.Simplify().Simplify() is structurally equal to
\* e.Simplify().
C5_SimplifyIdempotent == (OnlySimplified /\ Len(trail) = 2) => g = prev

\* C8: Abs(f).Val(x) is |f.Val(x)|, and Abs(f).Partial(v).Val(x) is
\* f.Partial(v).Val(x) when f.Val(x) >= 0 and -f.Partial(v).Val(x) otherwise, the
\* sign of f being tested at the point x where the derivative is evaluated.
C8_AbsValAndPartial ==
    /\ (fn.k = "BranchAbs" /\ trail = <<>>) =>
          \A p \in Points : Val(g, p) = FAbs(Val(fn.a[1], p))
    /\ (prev.k = "BranchAbs" /\ trail # <<>> /\ LastOp.op = "Partial") =>
          \A p \in Points :
              LET f == prev.a[1]
                  d == Val(Partial(f, LastOp.v), p)
              IN  Val(g, p) = IF GeZero(Val(f, p)) THEN d ELSE FNeg(d)
    /\ LET a == Abs(Variable(0))
       IN  /\ Val(a, <<Whole(5)>>) = Whole(5)
           /\ Val(Partial(a, 0), <<Whole(5)>>) = Whole(1)
           /\ Val(a, <<Whole(-5)>>) = Whole(5)
           /\ Val(Partial(a, 0), <<Whole(-5)>>) = Whole(-1)

\* C8 witness: Abs(Variable(0)) has been differentiated by variable 0 and the
\* derivative evaluates to -1 at a point where variable 0 is negative.
C8_Witness ==
    /\ prev = Abs(Variable(0)) /\ trail = <<Op("Partial", 0)>>
    /\ \E p \in Points : LtZero(p[1]) /\ Val(g, p) = Whole(-1)

\* C9: Sum{}.Simplify() is Constant(0); Mult{}.Simplify() is Constant(1); a Mult
\* that has a factor simplifying to Constant(0) simplifies to Constant(0).
C9_EmptyAndZero ==
    Simplified =>
        /\ prev = Sum(<<>>) => g = Constant(Whole(0))
        /\ prev = Mult(<<>>) => g = Constant(Whole(1))
        /\ (/\ prev.k = "Mult"
            /\ \E i \in 1..Len(prev.a) : \E c \in Simplify(prev.a[i]) : IsZeroConstant(c))
           => g = Constant(Whole(0))

\* C9 witness: a Mult whose first factor is a Variable and whose second factor is
\* not a Constant but simplifies to Constant(0) has been simplified to Constant(0).
C9_Witness ==
    /\ trail = <<Op("Simplify", 0)>>
    /\ prev = Mult(<<Variable(0), Sum(<<Constant(Whole(-1)), Constant(Whole(1))>>)>>)
    /\ g = Constant(Whole(0))

\* C10: Mult.Simplify drops the factors equal to Constant(1); when exactly one
\* factor remains it returns that factor unwrapped (not a Mult), when none
\* remains it returns Constant(1), otherwise the reduced Mult.
C10_MultUnwraps ==
    (Simplified /\ prev.k = "Mult" /\ g.k = "Mult") =>
        /\ Len(g.a) >= 2
        /\ \A i \in 1..Len(g.a) : ~IsOneConstant(g.a[i])

\* the base variable and the exponent of a power of a variable
PowerBase(f) == IF IsVariable(f) THEN f ELSE Base(f)
PowerExp(f) == IF IsVariable(f) THEN Whole(1) ELSE Exponent(f).n

\* prev is a product of two powers of variables and has just been simplified
PowProductSimplified ==
    /\ trail = <<Op("Simplify", 0)>>
    /\ prev \in PowProducts

\* C11: Mult{Pow{x, a}, Pow{x, b}}.Simplify() is Pow{x, Constant(a+b)}, a bare
\* Variable factor counting as Pow{x, Constant(1)}; factors with different base
\* variables are not merged: both powers are factors of the result.
C11_PowMerge ==
    PowProductSimplified =>
        LET p == prev.a[1]
            q == prev.a[2]
        IN  IF PowerBase(p) = PowerBase(q)
            THEN g = Pow(PowerBase(p), Constant(FAdd(PowerExp(p), PowerExp(q))))
            ELSE /\ g.k = "Mult"
                 /\ \A f \in {p, q} : \E r \in Simplify(f) : \E i \in 1..Len(g.a) : g.a[i] = r

\* C15: Simplify is deterministic: every run of Simplify on the expression
\* that was simplified returns the tree this run returned, the factors of every
\* Mult in the same order.
C15_SimplifyDeterministic == Simplified => \A again \in Simplify(prev) : again = g

\* Mult.Val of the prototype: the running product seeded at 1, every factor
\* evaluated
RECURSIVE MultValPlainLoop(_, _, _, _)
MultValPlainLoop(m, xs, i, tot) ==
    IF i > Len(m) THEN tot
    ELSE MultValPlainLoop(m, xs, i + 1, FMul(tot, Val(m[i], xs)))

MultValPlain(m, xs) == MultValPlainLoop(m.a, xs, 1, Whole(1))

\* C17: Mult.Val is 0 whenever a factor evaluates to exactly 0, whatever the
\* later factors evaluate to (NaN and the infinities included); with no zero
\* factor it is the product of all factor values seeded at 1; and whenever all
\* factors evaluate to finite numbers it equals the plain product of the
\* prototype, which has no short-circuit.
C17_ShortCircuit ==
    g.k = "Mult" =>
        \A p \in Points :
            /\ (\E i \in 1..Len(g.a) : EqZero(Val(g.a[i], p))) => MultVal(g, p) = Whole(0)
            /\ (\A i \in 1..Len(g.a) : ~EqZero(Val(g.a[i], p)))
                  => MultVal(g, p) = MultValPlain(g, p)
            /\ (\A i \in 1..Len(g.a) : IsFinite(Val(g.a[i], p)))
                  => MultVal(g, p) = MultValPlain(g, p)

\* C17 witness: x0 * x0^-1 at x0 = 0: the first factor is 0 and the second is
\* +Inf; Mult.Val is 0 and the plain product is NaN.
C17_Witness ==
    /\ g = Mult(<<Variable(0), Pow(Variable(0), Constant(Whole(-1)))>>)
    /\ MultVal(g, <<Whole(0), Whole(0)>>) = Whole(0)
    /\ IsNaN(MultValPlain(g, <<Whole(0), Whole(0)>>))

\* the branch of the bcs closure b that its predicate selects at the point p
Selected(b, p) ==
    IF EqZero(p[Index(b) + 1]) THEN 1 ELSE IF EqOne(p[Index(b) + 1]) THEN 2 ELSE 3

\* b with its branch j replaced by u
WithBranch(b, j, u) == [b EXCEPT !.a[j] = u]

\* C16: the value of a Branch at a point is the value of the one branch the
\* selector picks at that point, and the branches that are not selected have
\* no influence on it: replacing any of them by any expression, one that is
\* undefined at the point included, leaves the value unchanged.  The same holds
\* for the Branch that Partial returns, with the partials of the branches.
C16_OnlySelectedBranch ==
    /\ g.k = "BranchBcs" =>
          \A p \in BranchPoints :
             /\ Val(g, p) = Val(g.a[Selected(g, p)], p)
             /\ \A j \in {1, 2, 3} \ {Selected(g, p)} : \A u \in BranchExprs :
                   Val(WithBranch(g, j, u), p) = Val(g, p)
    /\ g.k = "BranchAbs" =>
          \A p \in Points :
             Val(g, p) = IF GeZero(Val(g.a[1], p)) THEN Val(g.a[1], p)
                         ELSE Val(Negative(g.a[1]), p)
    /\ (g.k = "BranchPartial" /\ prev.k = "BranchBcs") =>
          \A p \in BranchPoints :
             Val(g, p) = Val(Partial(prev.a[Selected(prev, p)], Index(g)), p)

\* C16 witness: a conditional that is 1 where x0 is 0 and 1/x0 elsewhere was
\* differentiated; at x0 = 0 the branch 1/x0 is +Inf and the value of the
\* conditional is 1 and that of its partial is 0.
C16_Witness ==
    /\ prev = bcs(0, Constant(Whole(1)), Inverse(Variable(0)), Inverse(Variable(0)))
    /\ trail = <<Op("Partial", 0)>>
    /\ Val(prev.a[3], <<Whole(0), Whole(0)>>) = PosInf
    /\ Val(prev, <<Whole(0), Whole(0)>>) = Whole(1)
    /\ Val(g, <<Whole(0), Whole(0)>>) = Whole(0)

\* C19: Simplify applied to a conditional returns a conditional that, at every
\* point, selects the same branch as the original and returns a simplified form
\* of that branch.
C19_BranchesSimplified ==
    (Simplified /\ IsBranch(prev) /\ Len(trail) = 1) =>
        /\ IsBranch(g)
        /\ \A p \in BranchPoints : Call(g, p) \in Simplify(Call(prev, p))

----------------------------------------------------------------------------
(* Specification Spec: a Network is built and trained                      *)

MaxInputs == 2
MaxNeurons == 3
MaxPoints == 2
MaxTrains == 2
RateDen == 4

\* the learning rates k/RateDen with 0 < k/RateDen < 1
Rates == {Float(k, RateDen) : k \in 1..(RateDen - 1)}
\* the values a training point gives an input
InputVals == {Whole(0), Whole(1)}

NVars(n) == n.nextVarIndex

\* addVar and addWeight, one after the other, as NewInput calls them
addVar(n) ==
    [n EXCEPT !.Vars = Append(n.Vars, n.nextVarIndex), !.nextVarIndex = n.nextVarIndex + 1]
\* addWeight without n.nextVarIndex++
addWeightReuses(n) == [n EXCEPT !.Weights = Append(n.Weights, n.nextVarIndex)]

addWeight(n) ==
    [n EXCEPT !.Weights = Append(n.Weights, n.nextVarIndex),
              !.nextVarIndex = n.nextVarIndex + 1]

\* the cost functions assigned to CostFunc: the squared distance to 3 of the
\* weighted sum of the first input, or of the first two inputs; a constant for
\* the Network that has no input and no weight
CostFuncs(n) ==
    LET term(i) == Mult(<<Variable(n.Weights[i]), Variable(n.Vars[i])>>)
        three == Constant(Whole(-3))
    IN  (IF Len(n.Vars) = 0 THEN {Constant(Whole(0))} ELSE {})
        \cup
        (IF Len(n.Vars) >= 1
         THEN {Pow(Sum(<<term(1), three>>), Two)} ELSE {})
        \cup (IF Len(n.Vars) >= 2
              THEN {Pow(Sum(<<term(1), term(2), three>>), Two)} ELSE {})

Init ==
    /\ fn = Nil /\ x = <<>> /\ g = Nil /\ prev = Nil /\ trail = <<>>
    /\ net = Network /\ pc = "idle" /\ data = <<>>
    /\ rate \in Rates
    /\ pos = 0 /\ wi = 0 /\ dweight = <<>> /\ derivs = NoDerivs
    /\ snap = <<>> /\ entry = Network /\ calls = 0 /\ used = 0
    /\ neurons = <<>> /\ before = <<>>

\* &Neuron{network: n, Activation: a}: Inputs and Weights are nil and so is the
\* Func inside the activation
Neuron(kind) ==
    [Inputs |-> <<>>, Weights |-> <<>>, Activation |-> [kind |-> kind, Func |-> Nil]]

\* a *Neuron used as a Func: the Neuron at index i of neurons
NeuronRef(i) == [k |-> "Neuron", n |-> Whole(i), a |-> <<>>]

\* neuron, v := net.NewInput()
NewInput ==
    /\ pc = "idle"
    /\ trail = <<>>
    /\ Len(net.Vars) < MaxInputs
    /\ Len(neurons) < MaxNeurons
    /\ net' = addWeight(addVar(net))
    /\ neurons' = Append(neurons,
                     [Neuron("Tanh") EXCEPT !.Inputs = <<Variable(net.nextVarIndex)>>,
                                            !.Weights = <<net.nextVarIndex + 1>>])
    /\ UNCHANGED <<pc, rate, data, pos, wi, dweight, derivs, snap, entry, calls, used>>
    /\ UNCHANGED <<evars, before>>

\* net.CostFunc = residual
SetCostFunc ==
    /\ pc = "idle"
    /\ calls = 0
    /\ \E c \in CostFuncs(net) :
          /\ c # net.CostFunc
          /\ net' = [net EXCEPT !.CostFunc = c]
    /\ UNCHANGED <<pc, rate, data, pos, wi, dweight, derivs, snap, entry, calls, used>>
    /\ UNCHANGED <<evars, gvars>>

\* a State allocated without setting the weights to 1
FreshStateZero(n) == [i \in 1..NVars(n) |-> Whole(0)]

\* make([]float64, n.NVars()) with every weight set to 1
FreshState(n) ==
    [i \in 1..NVars(n) |->
        IF \E j \in 1..Len(n.Weights) : n.Weights[j] = i - 1 THEN Whole(1) ELSE Whole(0)]

\* Train that allocates State on every call
InitStateAlways(n) == FreshState(n)

\* the State Train starts from: allocated when len(n.State) == 0
InitState(n) == IF Len(n.State) = 0 THEN FreshState(n) ELSE n.State

\* net.Train(learnRate, varData) up to the head of the loop over varData
TrainCall ==
    /\ pc = "idle"
    /\ calls < MaxTrains
    /\ \E varData \in Lists([1..Len(net.Vars) -> InputVals], MaxPoints - used) :
          /\ data' = varData
          /\ used' = used + Len(varData)
          /\ pc' = IF Len(varData) = 0 THEN "done" ELSE "point"
    /\ net' = [net EXCEPT !.State = InitState(net)]
    /\ derivs' = NoDerivs
    /\ pos' = 1 /\ wi' = 0 /\ dweight' = <<>>
    /\ entry' = net
    /\ calls' = calls + 1
    /\ UNCHANGED <<rate, snap>>
    /\ UNCHANGED <<evars, gvars>>

\* n.State[int(index)] = pos[i] for every index of n.Vars
WriteInputs(state, inputs, point) ==
    [i \in 1..Len(state) |->
        IF \E j \in 1..Len(inputs) : inputs[j] = i - 1
        THEN point[CHOOSE j \in 1..Len(inputs) : inputs[j] = i - 1]
        ELSE state[i]]

\* the indices i of n.Vars for which n.State[int(index)] is out of range
OutOfRange(n) == {i \in 1..Len(n.Vars) : n.Vars[i] >= Len(n.State)}

\* the inputs written before the first index out of range stops the loop
Written(n) ==
    IF OutOfRange(n) = {} THEN n.Vars
    ELSE SubSeq(n.Vars, 1, (CHOOSE i \in OutOfRange(n) : \A j \in OutOfRange(n) : i <= j) - 1)

\* the body of the loop over varData up to dweight := make(...); an index of
\* State out of range panics, and so does the Printf of n.Weights[0] when the
\* Network has no weight
TrainPoint ==
    /\ pc = "point"
    /\ LET state == WriteInputs(net.State, Written(net), data[pos])
       IN  /\ net' = [net EXCEPT !.State = state]
           /\ IF \/ OutOfRange(net) # {}
                 \/ Len(net.Weights) = 0
                 \/ \E j \in 1..Len(net.Weights) : net.Weights[j] >= Len(net.State)
              THEN pc' = "panic" /\ UNCHANGED <<wi, dweight, snap>>
              ELSE /\ pc' = "delta"
                   /\ wi' = 1
                   /\ dweight' = [i \in 1..Len(net.Weights) |-> Whole(0)]
                   /\ snap' = state
    /\ UNCHANGED <<rate, data, pos, derivs, entry, calls, used>>
    /\ UNCHANGED <<evars, gvars>>

\* derivs[w] = n.CostFunc.Partial(w).Simplify() when derivs has no entry for w
Deriv(cache, cost, w) ==
    IF w \in DOMAIN cache THEN {cache[w]} ELSE Simplify(Partial(cost, w))

\* a Train that subtracts the deltas
UpdateWeightsAscent(state, weights, dw) ==
    [i \in 1..Len(state) |->
        IF \E j \in 1..Len(weights) : weights[j] = i - 1
        THEN FAdd(state[i], FNeg(dw[CHOOSE j \in 1..Len(weights) : weights[j] = i - 1]))
        ELSE state[i]]

\* n.State[int(w)] += dweight[i] for every weight
UpdateWeights(state, weights, dw) ==
    [i \in 1..Len(state) |->
        IF \E j \in 1..Len(weights) : weights[j] = i - 1
        THEN FAdd(state[i], dw[CHOOSE j \in 1..Len(weights) : weights[j] = i - 1])
        ELSE state[i]]

\* a Train that applies each delta as soon as it is computed
DeltaStateSequential(n, d) == UpdateWeights(n.State, n.Weights, d)

\* the State the delta of a weight is evaluated at: partialcost.Val(n.State)
DeltaState(n, d) == n.State

\* one pass of the loop that computes dweight
TrainDelta ==
    /\ pc = "delta"
    /\ wi <= Len(net.Weights)
    /\ IF net.CostFunc = Nil
       THEN pc' = "panic" /\ UNCHANGED <<wi, dweight, derivs>>
       ELSE /\ \E partialcost \in Deriv(derivs, net.CostFunc, net.Weights[wi]) :
                 /\ derivs' = PutDup(derivs, net.Weights[wi], partialcost)
                 /\ dweight' = [dweight EXCEPT
                        ![wi] = FMul(FNeg(rate), Val(partialcost, DeltaState(net, dweight)))]
            /\ wi' = wi + 1
            /\ pc' = "delta"
    /\ UNCHANGED <<net, rate, data, pos, snap, entry, calls, used>>
    /\ UNCHANGED <<evars, gvars>>

\* the loop that updates all weights together, and the step to the next point
TrainUpdate ==
    /\ pc = "delta"
    /\ wi > Len(net.Weights)
    /\ net' = [net EXCEPT !.State = UpdateWeights(net.State, net.Weights, dweight)]
    /\ pos' = pos + 1
    /\ pc' = IF pos + 1 > Len(data) THEN "done" ELSE "point"
    /\ UNCHANGED <<rate, data, wi, dweight, derivs, snap, entry, calls, used>>
    /\ UNCHANGED <<evars, gvars>>

\* Train returns: its parameters and local variables are gone
TrainReturn ==
    /\ pc = "done"
    /\ pc' = "idle"
    /\ data' = <<>> /\ pos' = 0 /\ wi' = 0 /\ dweight' = <<>> /\ derivs' = NoDerivs
    /\ snap' = <<>> /\ entry' = Network
    /\ UNCHANGED <<net, rate, calls, used>>
    /\ UNCHANGED <<evars, gvars>>

Next ==
    \/ NewInput
    \/ SetCostFunc
    \/ TrainCall
    \/ TrainPoint
    \/ TrainDelta
    \/ TrainUpdate
    \/ TrainReturn

Spec == Init /\ [][Next]_vars

----------------------------------------------------------------------------
(* Claims about Train                                                      *)

\* the value in State of the i-th weight
WeightOf(state, i) == state[net.Weights[i] + 1]

\* Train has just updated the weights for a training point
PointDone == pc \in {"point", "done"} /\ pos > 1

\* C4: for each training point the delta of every weight is computed from the
\* State as it was before any weight was updated for that point (snap), and
\* the weights are all updated after that: every weight ends the point at its
\* old value minus learnRate times its cached partial evaluated at snap, and
\* while the deltas are computed State stays snap.
C4_DeltasFromOldState ==
    /\ pc = "delta" =>
          /\ net.State = snap
          /\ \A i \in 1..(wi - 1) :
                dweight[i] = FMul(FNeg(rate), Val(derivs[net.Weights[i]], snap))
    /\ PointDone =>
          \A i \in 1..Len(net.Weights) :
             WeightOf(net.State, i) =
                FAdd(WeightOf(snap, i),
                     FMul(FNeg(rate), Val(derivs[net.Weights[i]], snap)))

\* C4 witness: a point of a Network with two weights, whose cost couples them,
\* has been trained on and both weights have changed.
C4_Witness ==
    /\ PointDone
    /\ Len(net.Weights) = 2
    /\ Len(net.CostFunc.a[1].a) = 3
    /\ WeightOf(net.State, 1) # WeightOf(snap, 1)
    /\ WeightOf(net.State, 2) # WeightOf(snap, 2)

\* the cost Pow(Sum(Mult(w, input), Constant(-3)), Constant(2)) of a Network
\* with one input and one weight
OneWeightCost ==
    Pow(Sum(<<Mult(<<Variable(1), Variable(0)>>), Constant(Whole(-3))>>), Two)

\* the Network has one input and one weight, its cost is OneWeightCost and every
\* training point of the running call sets the input to 1
OneWeightCase ==
    /\ Len(net.Vars) = 1 /\ Len(net.Weights) = 1
    /\ net.CostFunc = OneWeightCost
    /\ \A i \in 1..Len(data) : data[i] = <<Whole(1)>>

\* |w - 3| for the weight w of the one-weight Network in state
Distance(state) == FAbs(FAdd(WeightOf(state, 1), Whole(-3)))

\* C6: in the one-weight case, after each point the cost is not larger than it
\* was before the point, and |w - 3| is |1 - 2r| times what it was before the
\* point (r the learning rate, 0 < r < 1).
C6_OneWeightConverges ==
    (OneWeightCase /\ PointDone) =>
        /\ FLeq(Val(net.CostFunc, net.State), Val(net.CostFunc, snap))
        /\ Distance(net.State) =
              FMul(FAbs(FAdd(Whole(1), FMul(Whole(-2), rate))), Distance(snap))

\* C6 witness: with learning rate 1/4 the weight has gone from 1 to 2 to 5/2 in
\* two points.
C6_Witness ==
    /\ OneWeightCase /\ PointDone
    /\ rate = Float(1, 4)
    /\ pos = 3
    /\ WeightOf(snap, 1) = Whole(2)
    /\ WeightOf(net.State, 1) = Float(5, 2)

\* Train was called with an empty list of training points and is about to return
EmptyTrainDone == pc = "done" /\ data = <<>>

\* C7 as stated: Train called with an empty list of training points leaves the
\* whole Network (State, Vars, Weights, nextVarIndex, CostFunc) unchanged.
C7_Original == EmptyTrainDone => net = entry

\* C7: Train called with an empty list of training points does not fail and
\* leaves Vars, Weights, nextVarIndex and CostFunc unchanged; it leaves State
\* unchanged when State was allocated, and otherwise allocates it with NVars()
\* elements, 1 at the index of every weight and 0 elsewhere.
C7_EmptyTrain ==
    /\ (pc = "panic" => data # <<>>)
    /\ EmptyTrainDone =>
          /\ net.Vars = entry.Vars
          /\ net.Weights = entry.Weights
          /\ net.nextVarIndex = entry.nextVarIndex
          /\ net.CostFunc = entry.CostFunc
          /\ Len(entry.State) # 0 => net.State = entry.State
          /\ Len(entry.State) = 0 =>
                /\ Len(net.State) = net.nextVarIndex
                /\ \A i \in 1..Len(net.State) :
                      net.State[i] =
                         IF \E j \in 1..Len(net.Weights) : net.Weights[j] = i - 1
                         THEN Whole(1) ELSE Whole(0)

\* C7 witness: Train was called with an empty list on a Network with one input
\* whose State was not allocated, and State now has two elements.
C7_Witness ==
    /\ EmptyTrainDone
    /\ Len(entry.State) = 0
    /\ net.State = <<Whole(0), Whole(1)>>

----------------------------------------------------------------------------
(* Specification NetSpec: a Network is built from Neurons and the methods  *)
(* of Func are called on its Neurons                                       *)

MaxSources == 2
MaxWeights == 3
MaxCalls == 1

\* the values of the State entries at which a Neuron is evaluated: math.Tanh
\* is rational at 0 and at the infinities only
StateVals == {Whole(0), PosInf}

\* the Sum getFunc builds: fn = append(fn, Mult{n.Weights[i], n.Inputs[i]})
WeightedSum(n) ==
    Sum([i \in 1..Len(n.Weights) |-> Mult(<<Variable(n.Weights[i]), n.Inputs[i]>>)])

\* n.Activation.SetInner(fn) on the Neuron at index i
SetInner(heap, i) == [heap EXCEPT ![i].Activation.Func = WeightedSum(heap[i])]

\* the Neurons among the inputs of the Neuron at index i
Sources(heap, i) ==
    {heap[i].Inputs[j].n[1] : j \in {j \in 1..Len(heap[i].Inputs) : heap[i].Inputs[j].k = "Neuron"}}

\* the Neurons among the inputs of the Neuron at index i whose weight is not 0
\* in xs: Mult.Val returns before it evaluates the input of a weight that is 0
LiveSources(heap, i, xs) ==
    {heap[i].Inputs[j].n[1] :
        j \in {j \in 1..Len(heap[i].Inputs) :
                 /\ heap[i].Inputs[j].k = "Neuron"
                 /\ ~EqZero(xs[heap[i].Weights[j] + 1])}}

RECURSIVE Closure(_, _, _, _)
\* the Neurons reached from the set S in at most n steps along succ
Closure(heap, succ, S, n) ==
    IF n = 0 THEN S
    ELSE Closure(heap, succ, S \cup UNION {succ[j] : j \in S}, n - 1)

\* the Neurons whose methods a call on the Neuron at index i calls in turn (the
\* Neuron itself included), succ giving the Neurons each Neuron calls
Visited(heap, succ, i) == Closure(heap, succ, {i}, Len(heap))

\* the calls started at the Neuron at index i come back to a Neuron they are
\* still in: the recursion has no end and the goroutine stack overflows
Recurses(heap, succ, i) ==
    \E j \in Visited(heap, succ, i) :
        j \in Closure(heap, succ, succ[j], Len(heap))

\* the Activation of the Neuron n after SetInner(f)
Activation(n, f) == IF n.Activation.kind = "Tanh" THEN Tanh(f) ELSE Passthrough(f)

RECURSIVE NeuronFunc(_, _, _)
\* the Func n.getFunc() returns for the Neuron at index i, each Neuron that
\* Val reaches at xs replaced by the Func its own getFunc() returns
NeuronFunc(heap, i, xs) ==
    LET n == heap[i]
        input(j) == IF n.Inputs[j].k = "Neuron" /\ ~EqZero(xs[n.Weights[j] + 1])
                    THEN NeuronFunc(heap, n.Inputs[j].n[1], xs)
                    ELSE n.Inputs[j]
    IN  Activation(n, Sum([j \in 1..Len(n.Weights) |->
                              Mult(<<Variable(n.Weights[j]), input(j)>>)]))

\* n.Val(x) for the Neuron at index i: n.getFunc().Val(x)
NeuronValue(heap, i, xs) == Val(NeuronFunc(heap, i, xs), xs)

\* a PullFrom that allocates one weight for all the sources of the call
PullLoopShared(n, nw, srcs, j) ==
    [neuron |-> [n EXCEPT !.Inputs = n.Inputs \o [k \in 1..Len(srcs) |-> NeuronRef(srcs[k])],
                          !.Weights = n.Weights \o [k \in 1..Len(srcs) |-> nw.nextVarIndex]],
     network |-> IF srcs = <<>> THEN nw ELSE addWeight(nw)]

RECURSIVE SetInnerAll(_, _)
\* SetInner on every Neuron of the set S
SetInnerAll(heap, S) ==
    IF S = {} THEN heap
    ELSE LET i == CHOOSE i \in S : TRUE
         IN  SetInnerAll(SetInner(heap, i), S \ {i})

NetInit ==
    /\ fn = Nil /\ x = <<>> /\ g = Nil /\ prev = Nil /\ trail = <<>>
    /\ NetIdle

\* net.NewNeuron()
NewNeuron ==
    /\ pc = "idle"
    /\ trail = <<>>
    /\ Len(neurons) < MaxNeurons
    /\ neurons' = Append(neurons, Neuron("Tanh"))
    /\ UNCHANGED <<net, pc, rate, data, pos, wi, dweight, derivs, snap, entry, calls, used>>
    /\ UNCHANGED <<evars, before>>

\* net.NewOutput()
NewOutput ==
    /\ pc = "idle"
    /\ trail = <<>>
    /\ Len(neurons) < MaxNeurons
    /\ neurons' = Append(neurons, Neuron("Passthrough"))
    /\ net' = [net EXCEPT !.Outputs = Append(net.Outputs, Len(neurons) + 1)]
    /\ UNCHANGED <<pc, rate, data, pos, wi, dweight, derivs, snap, entry, calls, used>>
    /\ UNCHANGED <<evars, before>>

RECURSIVE PullLoop(_, _, _, _)
\* the loop of PullFrom over the sources srcs, from the Neuron n and the Network nw
PullLoop(n, nw, srcs, j) ==
    IF j > Len(srcs) THEN [neuron |-> n, network |-> nw]
    ELSE PullLoop([n EXCEPT !.Inputs = Append(n.Inputs, NeuronRef(srcs[j])),
                            !.Weights = Append(n.Weights, nw.nextVarIndex)],
                  addWeight(nw), srcs, j + 1)

\* n.PullFrom(neurons...)
PullFrom ==
    /\ pc = "idle"
    /\ trail = <<>>
    /\ \E i \in 1..Len(neurons) :
         \E srcs \in Lists(1..Len(neurons), MaxSources) :
            /\ Len(net.Weights) + Len(srcs) <= MaxWeights
            /\ LET r == PullLoop(neurons[i], net, srcs, 1)
               IN  /\ neurons' = [neurons EXCEPT ![i] = r.neuron]
                   /\ net' = r.network
    /\ UNCHANGED <<pc, rate, data, pos, wi, dweight, derivs, snap, entry, calls, used>>
    /\ UNCHANGED <<evars, before>>

\* a method of Func called on the Neuron at index i; it calls getFunc, or its
\* body, on every Neuron in S and never returns when recurses
NeuronCall(name, i, S, recurses) ==
    /\ pc = "idle"
    /\ Len(trail) < MaxCalls
    /\ before' = neurons
    /\ neurons' = SetInnerAll(neurons, S)
    /\ trail' = Append(trail, Op(name, i))
    /\ pc' = IF recurses THEN "overflow" ELSE "idle"
    /\ UNCHANGED <<net, rate, data, pos, wi, dweight, derivs, snap, entry, calls, used>>
    /\ UNCHANGED <<fn, x, g, prev>>

\* n.Val(x)
NeuronVal ==
    \E i \in 1..Len(neurons) : \E xs \in [1..NVars(net) -> StateVals] :
        LET succ == [j \in 1..Len(neurons) |-> LiveSources(neurons, j, xs)]
        IN  NeuronCall("Val", i, Visited(neurons, succ, i), Recurses(neurons, succ, i))

\* n.Partial(v), n.Simplify() and n.String(): each calls n.getFunc() and then the
\* same method on every Neuron among the inputs
NeuronGetFunc ==
    \E i \in 1..Len(neurons) :
        LET succ == [j \in 1..Len(neurons) |-> Sources(neurons, j)]
        IN  NeuronCall("getFunc", i, Visited(neurons, succ, i),
                       Recurses(neurons, succ, i))

NetNext ==
    \/ NewInput
    \/ NewNeuron
    \/ NewOutput
    \/ PullFrom
    \/ NeuronVal
    \/ NeuronGetFunc

NetSpec == NetInit /\ [][NetNext]_vars

----------------------------------------------------------------------------
(* Claims about the Network and its Neurons                                *)

StrictlyIncreasing(s) == \A i \in 1..(Len(s) - 1) : s[i] < s[i + 1]
Elements(s) == {s[i] : i \in 1..Len(s)}

\* Vars and Weights split 0..nextVarIndex-1 between them, each in increasing order
IndicesPartitioned ==
    /\ StrictlyIncreasing(net.Vars)
    /\ StrictlyIncreasing(net.Weights)
    /\ Elements(net.Vars) \cap Elements(net.Weights) = {}
    /\ Elements(net.Vars) \cup Elements(net.Weights) = 0..(net.nextVarIndex - 1)
    /\ Len(net.Vars) + Len(net.Weights) = NVars(net)

\* a step only appends to Vars and to Weights
IndicesKept == IsPrefix(net.Vars, net'.Vars) /\ IsPrefix(net.Weights, net'.Weights)

\* C12: after any sequence of NewInput, NewNeuron, NewOutput and PullFrom calls,
\* Vars and Weights are strictly increasing, share no index and hold every
\* index of 0..nextVarIndex-1 exactly once, and no step reuses or removes an
\* index: each step leaves Vars and Weights as they were or appends to them.
C12_FreshIndices == [](IndicesPartitioned) /\ [][IndicesKept]_vars

\* C12 witness: one input and an output Neuron that pulled twice; the indices
\* are 0 for the input variable and 1, 2, 3 for the weights.
C12_Witness ==
    /\ net.Vars = <<0>> /\ net.Weights = <<1, 2, 3>>
    /\ Len(net.Outputs) = 1
    /\ Len(neurons[net.Outputs[1]].Weights) = 2

\* Train has been called and has not yet written a training point
TrainEntered == pc \in {"point", "done"} /\ pos = 1

\* C13: Train initialises State only when State is unallocated: State then has
\* length NVars(), 1 at every weight index and 0 at every other index before
\* the first training point is written; when State is already allocated, Train
\* starts from the State the previous call left, weights included.
C13_StateInitOnce ==
    TrainEntered =>
        IF Len(entry.State) = 0
        THEN /\ Len(net.State) = NVars(net)
             /\ \A i \in 1..Len(net.State) :
                   net.State[i] = IF (i - 1) \in Elements(net.Weights)
                                  THEN Whole(1) ELSE Whole(0)
        ELSE net.State = entry.State

\* C13 witness: a second call of Train starts from the weight 2 that the first
\* call left (one point, learning rate 1/4).
C13_Witness ==
    /\ TrainEntered /\ pc = "point"
    /\ calls = 2
    /\ Len(net.Weights) = 1
    /\ net.State[net.Weights[1] + 1] = Whole(2)

\* C14: whenever Train reads or writes State, after any interleaving of
\* graph-building calls and Train calls, the length of State is NVars().
C14_StateCoversIndices == pc \in {"point", "delta"} => Len(net.State) = NVars(net)

\* C20: a call of Val, Partial, Simplify or String on a Neuron leaves every
\* Neuron as it was before the call: its Inputs, its Weights and its Activation,
\* the Func inside the Activation included.
C20_CallsMutateNothing == trail # <<>> => neurons = before

\* the points at which the Neurons are evaluated
NetPoints == [1..NVars(net) -> StateVals]

\* n.Val(x) on the Neuron at index i returns
Returns(heap, i, xs) ==
    ~Recurses(heap, [j \in 1..Len(heap) |-> LiveSources(heap, j, xs)], i)

RECURSIVE Total(_)
\* the sum of the numbers of the sequence s
Total(s) == IF s = <<>> THEN Whole(0) ELSE FAdd(Total(SubSeq(s, 1, Len(s) - 1)), s[Len(s)])

\* Inputs[j].Val(x) for the Neuron n
InputValue(heap, n, j, xs) ==
    IF n.Inputs[j].k = "Neuron" THEN NeuronValue(heap, n.Inputs[j].n[1], xs)
    ELSE Val(n.Inputs[j], xs)

\* activation(v) for the Neuron n
Activated(n, v) == IF n.Activation.kind = "Tanh" THEN MathTanh(v) ELSE v

\* activation(sum over i of x[Weights[i]] * Inputs[i].Val(x))
PlainValue(heap, i, xs) ==
    Activated(heap[i], Total([j \in 1..Len(heap[i].Weights) |->
        FMul(xs[heap[i].Weights[j] + 1], InputValue(heap, heap[i], j, xs))]))

\* the same with a term counting as 0 when its weight is 0 (the input is then
\* not evaluated) or its input evaluates to 0
ZeroTermValue(heap, i, xs) ==
    Activated(heap[i], Total([j \in 1..Len(heap[i].Weights) |->
        IF EqZero(xs[heap[i].Weights[j] + 1]) THEN Whole(0)
        ELSE IF EqZero(InputValue(heap, heap[i], j, xs)) THEN Whole(0)
        ELSE FMul(xs[heap[i].Weights[j] + 1], InputValue(heap, heap[i], j, xs))]))

\* the positions <<i, j>> of the weights of the Neurons
WeightPositions == {p \in (1..Len(neurons)) \X (1..MaxWeights + MaxInputs) :
                      p[2] <= Len(neurons[p[1]].Weights)}

\* Inputs and Weights are parallel, and every weight index of the Network is at
\* exactly one position of exactly one Neuron
WeightsParallel ==
    /\ \A i \in 1..Len(neurons) : Len(neurons[i].Inputs) = Len(neurons[i].Weights)
    /\ \A p \in WeightPositions : neurons[p[1]].Weights[p[2]] \in Elements(net.Weights)
    /\ \A w \in Elements(net.Weights) :
          Cardinality({p \in WeightPositions : neurons[p[1]].Weights[p[2]] = w}) = 1

\* a step that adds inputs to a Neuron adds as many weights to it and to the
\* Network, all of them indices that were not allocated before
PullAddsFresh ==
    \A i \in 1..Len(neurons) :
        (trail' = <<>> /\ neurons'[i] # neurons[i]) =>
            LET k == Len(neurons'[i].Inputs) - Len(neurons[i].Inputs)
            IN  /\ k >= 1
                /\ IsPrefix(neurons[i].Inputs, neurons'[i].Inputs)
                /\ IsPrefix(neurons[i].Weights, neurons'[i].Weights)
                /\ Len(neurons'[i].Weights) = Len(neurons[i].Weights) + k
                /\ Len(net'.Weights) = Len(net.Weights) + k
                /\ \A j \in 1..k :
                      neurons'[i].Weights[Len(neurons[i].Weights) + j]
                          = net.nextVarIndex + j - 1

TrainableEntry ==
    /\ Len(entry.State) \in {0, NVars(entry)}
    /\ entry.CostFunc # Nil

\* C21: a call of Train on a Network whose State is unallocated or has length
\* NVars() and whose CostFunc is set never ends in a runtime panic, whatever
\* the number of weights of the Network (zero included) and the training list.
C21_TrainNeverPanics == (pc = "panic" /\ TrainableEntry) => FALSE

----------------------------------------------------------------------------
(* Specification ProtoSpec: the prototype whose Branch is a struct with    *)
(* the fields Cond, IfTrue and Else                                        *)

\* the number of frames of Partial at which the goroutine stack is exhausted
MaxStack == 3

\* Abs{f} of the prototype
AbsStruct(f) == [k |-> "AbsStruct", n |-> Whole(0), a |-> <<f>>]

\* &Branch{Cond: func(x) bool { return c.Val(x) >= 0 }, IfTrue: t, Else: e}
BranchStruct(c, t, e) == [k |-> "BranchStruct", n |-> Whole(0), a |-> <<c, t, e>>]

\* the expressions Abs is applied to: leaves and the sums and products of two
\* leaves, whose Partial is the same in the prototype and in main.go
ProtoFuncs ==
    Leaves \cup {Sum(<<a, b>>) : a \in Leaves, b \in Leaves}
           \cup {Mult(<<a, b>>) : a \in Leaves, b \in Leaves}

ProtoInit ==
    /\ fn \in {AbsStruct(f) : f \in ProtoFuncs}
    /\ x = <<>>
    /\ g = fn /\ prev = fn /\ trail = <<>>
    /\ NetIdle

\* g = g.Partial(v) for g an Abs: returns a Branch
AbsStructPartial ==
    /\ pc = "idle"
    /\ g.k = "AbsStruct"
    /\ \E v \in Vars :
          g' = BranchStruct(g.a[1], Partial(g.a[1], v), Partial(Negative(g.a[1]), v))
    /\ prev' = g
    /\ UNCHANGED <<fn, x, trail>>
    /\ UNCHANGED nvars

\* g.Partial(v) for g a Branch is called: the composite literal is evaluated
\* field by field, Cond is a func literal and IfTrue comes next
BranchStructPartial ==
    /\ pc = "idle"
    /\ g.k = "BranchStruct"
    /\ \E v \in Vars : trail' = <<Op("Partial", v)>>
    /\ pc' = "IfTrue"
    /\ UNCHANGED <<fn, x, g, prev>>
    /\ UNCHANGED <<net, rate, data, pos, wi, dweight, derivs, snap, entry, calls, used>>
    /\ UNCHANGED gvars

\* IfTrue: b.Partial(v) calls Partial on the same Branch with the same v
IfTrueRecurses ==
    /\ pc = "IfTrue"
    /\ Len(trail) < MaxStack
    /\ trail' = Append(trail, trail[Len(trail)])
    /\ UNCHANGED <<fn, x, g, prev>>
    /\ UNCHANGED nvars

\* the frames of Partial exhaust the goroutine stack: fatal error
StackOverflow ==
    /\ pc = "IfTrue"
    /\ Len(trail) = MaxStack
    /\ pc' = "overflow"
    /\ UNCHANGED evars
    /\ UNCHANGED <<net, rate, data, pos, wi, dweight, derivs, snap, entry, calls, used>>
    /\ UNCHANGED gvars

ProtoNext ==
    \/ AbsStructPartial
    \/ BranchStructPartial
    \/ IfTrueRecurses
    \/ StackOverflow

ProtoSpec == ProtoInit /\ [][ProtoNext]_vars

\* C22: in the prototype, a call of Partial on a struct Branch terminates:
\* it never calls Partial again on that same Branch with the same variable, and
\* it never exhausts the stack.
C22_BranchPartialReturns == pc # "overflow" /\ Len(trail) <= 1

====
